---- MODULE Spec2Model ----
(***************************************************************************)
(* ShapeDrawer (drawer.py): a scene file (Palette, Screen, Figures) is     *)
(* parsed by FileParser into resolved colours and Shape objects, an        *)
(* ImageManager is built from the screen parameters, every shape is drawn  *)
(* in list order, the image is displayed and, with -o, saved.              *)
(*                                                                         *)
(* Python values are modelled as records: a str is the sequence of its     *)
(* characters, so that startswith and findall act on characters; a tuple   *)
(* is a sequence of integers; None is its own kind.                        *)
(***************************************************************************)
EXTENDS Integers, Sequences, FiniteSets, TLC

VARIABLES
    pc,                \* position in main(): which statement runs next
    args_output,       \* args.output is given (-o)
    color_palette,     \* FileParser.color_palette: name -> resolved colour
    screen_parameters, \* FileParser.screen_parameters: key -> value
    raw_figures,       \* entries of raw_dict['Figures'] consumed so far, in order
    figures,           \* FileParser.figures: the Shapes constructed so far
    im,                \* the ImageManager: its image, once constructed
    drawn,             \* shapes handed to im.draw so far
    surface_log,       \* the calls made on the drawing surface, in order
    displayed,         \* im.display() has run
    saved,             \* number of im.save() calls
    error,             \* the exception that ended the run, if any
    lookup             \* the last colour resolution: its token and its outcome

vars == <<pc, args_output, color_palette, screen_parameters, raw_figures, figures,
          im, drawn, surface_log, displayed, saved, error, lookup>>

----------------------------------------------------------------------------
(* Bounds of the model.                                                    *)

MaxFigures == 2      \* entries of the Figures array
MaxTokLen == 7       \* characters after the first one of a colour token (SpecColor)
MaxCoord == 1        \* x and y of a figure range over 0..MaxCoord (SpecDraw)
MaxSize == 4         \* size, width and height range over 0..MaxSize (SpecRect)
CanvasDim == 2       \* width and height of the screen

----------------------------------------------------------------------------
(* Python values.                                                          *)

Str(s) == [kind |-> "str", s |-> s, t |-> <<>>]
Tup(t) == [kind |-> "tuple", s |-> <<>>, t |-> t]
PyNone == [kind |-> "none", s |-> <<>>, t |-> <<>>]

Digits == {"0", "1", "2", "3", "4", "5", "6", "7", "8", "9"}

DigitVal(c) ==
    CASE c = "0" -> 0 [] c = "1" -> 1 [] c = "2" -> 2 [] c = "3" -> 3 [] c = "4" -> 4
      [] c = "5" -> 5 [] c = "6" -> 6 [] c = "7" -> 7 [] c = "8" -> 8 [] c = "9" -> 9

\* int(run) for a run of decimal digits
RECURSIVE int(_)
int(run) ==
    IF run = <<>> THEN 0
    ELSE 10 * int(SubSeq(run, 1, Len(run) - 1)) + DigitVal(run[Len(run)])

\* str.startswith(c) for a one-character prefix
startswith(s, c) == Len(s) >= 1 /\ s[1] = c

\* findall('[0-9]+', s): the maximal runs of digits of s, left to right.
\* cur is the run being read, acc the runs already closed.
RECURSIVE DigitRuns(_, _, _)
DigitRuns(s, cur, acc) ==
    IF s = <<>> THEN (IF cur = <<>> THEN acc ELSE Append(acc, cur))
    ELSE IF Head(s) \in Digits
         THEN DigitRuns(Tail(s), Append(cur, Head(s)), acc)
         ELSE DigitRuns(Tail(s), <<>>, IF cur = <<>> THEN acc ELSE Append(acc, cur))

findall(s) == DigitRuns(s, <<>>, <<>>)

----------------------------------------------------------------------------
(* Outcomes of an expression: a value, or the exception it raises.         *)

Ok(v) == [err |-> "none", val |-> v]
Raise(e) == [err |-> e, val |-> PyNone]
Pending == [err |-> "pending", val |-> PyNone]

\* (r, g, b) = findall(...): unpacking binds exactly three values
UnpackFirstThree(runs) ==
    IF Len(runs) < 3 THEN Raise("ValueError")
    ELSE Ok(Tup(<<int(runs[1]), int(runs[2]), int(runs[3])>>))

Unpack3(runs) ==
    IF Len(runs) # 3 THEN Raise("ValueError")
    ELSE Ok(Tup(<<int(runs[1]), int(runs[2]), int(runs[3])>>))

\* FileParser._parse_color, with the token returned where the code returns None
ParseColorEcho(v) ==
    IF v.kind # "str" THEN Raise("AttributeError")
    ELSE IF startswith(v.s, "#") THEN Ok(v)
    ELSE IF startswith(v.s, "(") THEN Unpack3(findall(v.s))
    ELSE Ok(v)

\* FileParser._parse_color(string_color)
_parse_color(v) ==
    IF v.kind # "str" THEN Raise("AttributeError")   \* no startswith on a tuple or None
    ELSE IF startswith(v.s, "#") THEN Ok(v)
    ELSE IF startswith(v.s, "(") THEN Unpack3(findall(v.s))
    ELSE Ok(PyNone)

\* self.color_palette.get(c, FileParser._parse_color(c)): the default is an
\* argument, so Python evaluates _parse_color(c) before get looks the key up,
\* and its exception is raised whether or not c is a key
PaletteGet(palette, v) ==
    LET default == _parse_color(v)
    IN  IF default.err # "none" THEN default
        ELSE IF v.kind = "str" /\ v.s \in DOMAIN palette THEN Ok(palette[v.s])
        ELSE default

----------------------------------------------------------------------------
(* The Shape classes.                                                      *)

\* FileParser._FIGURE_CONSTRUCTORS: the recognised type names
_FIGURE_CONSTRUCTORS == {"point", "circle", "square", "rectangle", "polygon"}

\* the parameters of each constructor's __init__ other than self
Params(type) ==
    CASE type = "point" -> {"x", "y", "color"}
      [] type = "circle" -> {"x", "y", "radius", "color"}
      [] type = "square" -> {"x", "y", "size", "color"}
      [] type = "rectangle" -> {"x", "y", "height", "width", "color"}
      [] type = "polygon" -> {"points", "color"}

\* a constructor that ignores keyword arguments it does not know
BindsLoosely(type, keys) == Params(type) \subseteq keys

\* constructor(**figure_dict) binds: no parameter has a default and none
\* takes **kwargs, so the keywords must be exactly the parameters
Binds(type, keys) == keys = Params(type)

\* Point/Circle/Rectangle/Square/Polygon.__init__: the object's fields
Construct(type, kw) ==
    CASE type = "point" ->
           [cls |-> "Point", color |-> kw.color, x_coord |-> kw.x, y_coord |-> kw.y]
      [] type = "circle" ->
           [cls |-> "Circle", color |-> kw.color, x_coord |-> kw.x, y_coord |-> kw.y,
            radius |-> kw.radius]
      [] type = "rectangle" ->
           [cls |-> "Rectangle", color |-> kw.color, x_coord |-> kw.x, y_coord |-> kw.y,
            height |-> kw.height, width |-> kw.width]
      [] type = "square" ->   \* super().__init__(x, y, size, size, color)
           [cls |-> "Square", color |-> kw.color, x_coord |-> kw.x, y_coord |-> kw.y,
            height |-> kw.size, width |-> kw.size]
      [] type = "polygon" ->
           [cls |-> "Polygon", color |-> kw.color, points |-> kw.points]

\* Point.draw: surface.point((x, y), fill)
Point_draw(s) ==
    [prim |-> "point", xy |-> <<s.x_coord, s.y_coord>>, fill |-> s.color]

\* Circle.draw: surface.ellipse(bounding box, fill)
Circle_draw(s) ==
    [prim |-> "ellipse",
     xy |-> <<s.x_coord - s.radius, s.y_coord - s.radius,
              s.x_coord + s.radius, s.y_coord + s.radius>>,
     fill |-> s.color]

\* a rectangle drawn from its left and top edge by its full extent
Rectangle_draw_extent(s) ==
    [prim |-> "rectangle",
     xy |-> <<s.x_coord - (s.width \div 2), s.y_coord - (s.height \div 2),
              s.x_coord - (s.width \div 2) + s.width,
              s.y_coord - (s.height \div 2) + s.height>>,
     fill |-> s.color]

\* Rectangle.draw (inherited by Square): // is floor division, as \div is
Rectangle_draw(s) ==
    [prim |-> "rectangle",
     xy |-> <<s.x_coord - (s.width \div 2), s.y_coord - (s.height \div 2),
              s.x_coord + (s.width \div 2), s.y_coord + (s.height \div 2)>>,
     fill |-> s.color]

\* list(chain(*points)): the pairs flattened to x, y, x, y, ...
RECURSIVE chain(_)
chain(points) ==
    IF points = <<>> THEN <<>> ELSE Head(points) \o chain(Tail(points))

\* Polygon.draw: surface.polygon(flattened points, fill)
Polygon_draw(s) ==
    [prim |-> "polygon", xy |-> chain(s.points), fill |-> s.color]

\* shape.draw(surface): dispatch on the object's class
shape_draw(s) ==
    CASE s.cls = "Point" -> Point_draw(s)
      [] s.cls = "Circle" -> Circle_draw(s)
      [] s.cls \in {"Rectangle", "Square"} -> Rectangle_draw(s)
      [] s.cls = "Polygon" -> Polygon_draw(s)

----------------------------------------------------------------------------
(* The drawing surface (PIL's Image and ImageDraw), as far as the program  *)
(* relies on it: which pixels a primitive paints and which colours it      *)
(* takes.                                                                  *)

HexDigits == Digits \cup {"a", "b", "c", "d", "e", "f"}

\* a colour the surface takes: a tuple, None (no fill), or "#" and 3, 4, 6 or
\* 8 hexadecimal digits; any other string is rejected with a ValueError
SurfaceAcceptsColor(c) ==
    \/ c.kind \in {"tuple", "none"}
    \/ /\ c.kind = "str"
       /\ startswith(c.s, "#")
       /\ Len(c.s) \in {4, 5, 7, 9}
       /\ \A i \in 2..Len(c.s) : c.s[i] \in HexDigits

\* the ink of a surface that is given no colour: white in mode RGB
DefaultInk == Tup(<<255, 255, 255>>)
Ink(c) == IF c.kind = "none" THEN DefaultInk ELSE c

Pixels(w, h) == (0..(w - 1)) \X (0..(h - 1))

\* the region a primitive with corner list xy describes, among the pixels ps
Region(call, ps) ==
    LET xy == call.xy
    IN  CASE call.prim = "point" -> {p \in ps : p[1] = xy[1] /\ p[2] = xy[2]}
          [] call.prim = "rectangle" ->
               {p \in ps : xy[1] <= p[1] /\ p[1] <= xy[3] /\ xy[2] <= p[2] /\ p[2] <= xy[4]}
          [] call.prim = "ellipse" ->
               LET dx == xy[3] - xy[1]
                   dy == xy[4] - xy[2]
                   ex(p) == 2 * p[1] - xy[1] - xy[3]
                   ey(p) == 2 * p[2] - xy[2] - xy[4]
               IN  {p \in ps : /\ xy[1] <= p[1] /\ p[1] <= xy[3]
                               /\ xy[2] <= p[2] /\ p[2] <= xy[4]
                               /\ ex(p) * ex(p) * dy * dy + ey(p) * ey(p) * dx * dx
                                    <= dx * dx * dy * dy}
          [] call.prim = "polygon" ->
               \* a convex polygon: p is on one side of every edge
               LET n == Len(xy) \div 2
                   vx(i) == xy[2 * i - 1]
                   vy(i) == xy[2 * i]
                   nxt(i) == IF i = n THEN 1 ELSE i + 1
                   cross(i, p) == (vx(nxt(i)) - vx(i)) * (p[2] - vy(i))
                                    - (vy(nxt(i)) - vy(i)) * (p[1] - vx(i))
               IN  {p \in ps : \/ \A i \in 1..n : cross(i, p) >= 0
                               \/ \A i \in 1..n : cross(i, p) <= 0}

\* the pixels of a region that touch its outside: its outline
Boundary(call, w, h) ==
    LET all == (-1..w) \X (-1..h)
        reg == Region(call, all)
    IN  {p \in reg \cap Pixels(w, h) :
            \E d \in {<<1, 0>>, <<-1, 0>>, <<0, 1>>, <<0, -1>>} :
                <<p[1] + d[1], p[2] + d[2]>> \notin reg}

\* the pixels a call paints on a w x h image: the region when a fill is
\* given, its outline in the default ink when the fill is None
Painted(call, w, h) ==
    IF call.fill.kind = "none" THEN Boundary(call, w, h)
    ELSE Region(call, Pixels(w, h))

Paint(image, call) ==
    [image EXCEPT !.pixels =
        [p \in DOMAIN image.pixels |->
            IF p \in Painted(call, image.width, image.height)
            THEN Ink(call.fill) ELSE image.pixels[p]]]

----------------------------------------------------------------------------
(* Scene files: the colour tokens, palettes, screens and figure entries    *)
(* the runs are given.                                                     *)

TokHexA == <<"#", "f", "f", "f">>                      \* "#fff"
TokHexB == <<"#", "0", "0", "0">>                      \* "#000"
TokBadHex == <<"#", "r">>                              \* "#r": kept by the parser
TokRgb == <<"(", "1", ",", "2", ",", "3", ")">>        \* "(1,2,3)"
TokTwo == <<"(", "1", ",", "2", ")">>                  \* "(1,2)": two numeric groups
TokName == <<"r">>                                     \* a palette name
TokParenName == <<"(", "r", ")">>                      \* a palette name in parentheses
TokUnknown == <<"b">>                                  \* in no palette

ColorTokens ==
    {TokHexA, TokHexB, TokBadHex, TokRgb, TokTwo, TokName, TokParenName, TokUnknown}

\* f without the keys outside S
Restrict(f, S) == [k \in S \cap DOMAIN f |-> f[k]]

\* Palette sections: no entry (also the absent section, which
\* raw_dict.get('Palette', {}) reads as {}); one name with each kind of value;
\* a name in parentheses and a name that starts with "#"; both together
PalettePool ==
    LET one(n, v) == [k \in {n} |-> Str(v)]
    IN  {<<>>}
        \cup {one(TokName, v) : v \in {TokHexA, TokRgb, TokTwo, TokUnknown}}
        \cup {one(TokParenName, TokHexA), one(TokBadHex, TokHexA)}
        \cup {[k \in {TokName, TokParenName} |->
                  IF k = TokName THEN Str(TokRgb) ELSE Str(TokHexA)]}

\* Screen sections: with both dimensions, every foreground token and some
\* background tokens; and, with plain colours, every subset of the four keys
\* and an unknown key
ScreenPool ==
    LET full(bg, fg) == [width |-> CanvasDim, height |-> CanvasDim,
                         bg_color |-> Str(bg), fg_color |-> Str(fg)]
        plain == full(TokHexB, TokHexA)
    IN  {full(TokHexB, fg) : fg \in ColorTokens}
        \cup {full(bg, TokHexA) : bg \in {TokName, TokParenName, TokBadHex}}
        \cup {Restrict(plain, S) : S \in SUBSET DOMAIN plain}
        \cup {plain @@ [title |-> 0]}

Triangle == <<<<0, 0>>, <<1, 0>>, <<0, 1>>>>

BaseGeometry(type) ==
    CASE type = "circle" -> [x |-> 0, y |-> 0, radius |-> 0]
      [] type = "square" -> [x |-> 0, y |-> 0, size |-> 1]
      [] type = "rectangle" -> [x |-> 0, y |-> 0, height |-> 1, width |-> 1]
      [] type = "polygon" -> [points |-> Triangle]
      [] OTHER -> [x |-> 0, y |-> 0]

\* Figures entries: every type name (and an unknown one) with exactly its
\* geometry fields, with one field dropped, with one field added, all without
\* a colour; and a point with every colour token
FigurePool ==
    LET types == _FIGURE_CONSTRUCTORS \cup {"triangle"}
        exact(t) == [type |-> t] @@ BaseGeometry(t)
        col(f, c) == f @@ [color |-> Str(c)]
    IN  {exact(t) : t \in types}
        \cup {Restrict(exact(t), DOMAIN exact(t) \ {k}) :
                 t \in _FIGURE_CONSTRUCTORS, k \in {"type", "x", "y", "radius", "size",
                                                    "height", "width", "points"}}
        \cup {exact(t) @@ [z |-> 0] : t \in _FIGURE_CONSTRUCTORS}
        \cup {col(exact("point"), c) : c \in ColorTokens}
        \cup {col(exact("triangle"), TokTwo)}

\* The scenes of SpecDraw: one palette, one screen, two colours (the default
\* and a palette name), and shapes of every class placed within the bounds
DrawPalettePool == {[n \in {TokName} |-> Str(TokRgb)]}

DrawScreenPool ==
    {[width |-> CanvasDim, height |-> CanvasDim,
      bg_color |-> Str(TokHexB), fg_color |-> Str(TokHexA)]}

DrawFigurePool ==
    LET C == 0..MaxCoord
        geometry ==
            {[type |-> "point", x |-> x, y |-> y] : x \in C, y \in C}
            \cup {[type |-> "circle", x |-> x, y |-> 0, radius |-> 1] : x \in C}
            \cup {[type |-> "square", x |-> x, y |-> x, size |-> 2] : x \in C}
            \cup {[type |-> "rectangle", x |-> 0, y |-> y, height |-> 1,
                    width |-> 2 * CanvasDim] : y \in C}
            \cup {[type |-> "polygon", points |-> Triangle]}
    IN  geometry \cup {g @@ [color |-> Str(TokName)] : g \in geometry}

\* The rectangles of SpecRect: Rectangle and Square objects at every centre
\* and of every height and width within the bounds, odd and even
RectanglePool ==
    LET C == 0..MaxCoord
        Z == 0..MaxSize
    IN  {Construct("rectangle", [color |-> Str(TokHexA), x |-> x, y |-> y,
                                 height |-> h, width |-> w]) :
            x \in C, y \in C, h \in Z, w \in Z}
        \cup {Construct("square", [color |-> Str(TokHexA), x |-> x, y |-> y, size |-> z]) :
                 x \in C, y \in C, z \in Z}

\* The arguments of SpecColor: a first character and up to MaxTokLen
\* characters among two digits and a separator; the empty string; a tuple
\* and None (what a resolved colour can be)
ColorInputs ==
    LET bodies == UNION {[1..n -> {"0", "1", ","}] : n \in 0..MaxTokLen}
    IN  {Str(<<c>> \o b) : c \in {"(", "#", "r"}, b \in bodies}
        \cup {Str(<<>>), PyNone, Tup(<<1, 2, 3>>)}

----------------------------------------------------------------------------
(* The run of main().                                                      *)

NoError == [exc |-> "none", where |-> "none"]
NoImage == [created |-> FALSE, width |-> 0, height |-> 0, pixels |-> <<>>]
NoLookup == [raw |-> PyNone, res |-> Pending]

\* an exception leaves main(): nothing after the raising statement runs
Abort(exc, where) ==
    /\ pc' = "failed"
    /\ error' = [exc |-> exc, where |-> where]

Start(first) ==
    /\ pc = first
    /\ args_output \in BOOLEAN
    /\ color_palette = <<>>
    /\ screen_parameters = <<>>
    /\ raw_figures = <<>>
    /\ im = NoImage
    /\ drawn = 0
    /\ surface_log = <<>>
    /\ displayed = FALSE
    /\ saved = 0
    /\ error = NoError

Init == Start("palette") /\ figures = <<>> /\ lookup = NoLookup

\* FileParser.__init__, lines 146-148: the palette section, every value
\* through _parse_color
ParsePalette(raw) ==
    /\ pc = "palette"
    /\ LET parsed == [n \in DOMAIN raw |-> _parse_color(raw[n])]
           bad == {n \in DOMAIN raw : parsed[n].err # "none"}
       IN  IF bad # {}
           THEN /\ Abort(parsed[CHOOSE n \in bad : TRUE].err, "Palette")
                /\ UNCHANGED color_palette
           ELSE /\ color_palette' = [n \in DOMAIN raw |-> parsed[n].val]
                /\ pc' = "screen"
                /\ UNCHANGED error
    /\ UNCHANGED <<args_output, screen_parameters, raw_figures, figures, im, drawn,
                   surface_log, displayed, saved, lookup>>

\* raw_dict['Screen'] when the file has no Screen section
NoScreen ==
    /\ pc = "screen"
    /\ Abort("KeyError", "Screen")
    /\ UNCHANGED <<args_output, color_palette, screen_parameters, raw_figures, figures,
                   im, drawn, surface_log, displayed, saved, lookup>>

\* FileParser.__init__, lines 150-158: the screen section; bg_color and
\* fg_color are read and resolved, width and height are not looked at
ParseScreen(scr) ==
    /\ pc = "screen"
    /\ IF "bg_color" \notin DOMAIN scr
       THEN /\ Abort("KeyError", "bg_color")
            /\ screen_parameters' = scr
            /\ UNCHANGED lookup
       ELSE LET bg == PaletteGet(color_palette, scr.bg_color)
                scr1 == [scr EXCEPT !.bg_color = bg.val]
            IN  IF bg.err # "none"
                THEN /\ Abort(bg.err, "bg_color")
                     /\ screen_parameters' = scr
                     /\ lookup' = [raw |-> scr.bg_color, res |-> bg]
                ELSE IF "fg_color" \notin DOMAIN scr
                THEN /\ Abort("KeyError", "fg_color")
                     /\ screen_parameters' = scr1
                     /\ lookup' = [raw |-> scr.bg_color, res |-> bg]
                ELSE LET fg == PaletteGet(color_palette, scr.fg_color)
                     IN  /\ lookup' = [raw |-> scr.fg_color, res |-> fg]
                         /\ IF fg.err # "none"
                            THEN /\ Abort(fg.err, "fg_color")
                                 /\ screen_parameters' = scr1
                            ELSE /\ screen_parameters' = [scr1 EXCEPT !.fg_color = fg.val]
                                 /\ pc' = "figures"
                                 /\ UNCHANGED error
    /\ UNCHANGED <<args_output, color_palette, raw_figures, figures, im, drawn,
                   surface_log, displayed, saved>>

\* raw_dict['Figures'] when the file has no Figures section
NoFigures ==
    /\ pc = "figures"
    /\ raw_figures = <<>>
    /\ Abort("KeyError", "Figures")
    /\ UNCHANGED <<args_output, color_palette, screen_parameters, raw_figures, figures,
                   im, drawn, surface_log, displayed, saved, lookup>>

\* a lookup that falls back to Point for a name it does not know
ConstructorOrPoint(figure_type) ==
    IF figure_type \in _FIGURE_CONSTRUCTORS
    THEN [err |-> "none", type |-> figure_type]
    ELSE [err |-> "none", type |-> "point"]

\* FileParser._FIGURE_CONSTRUCTORS[figure_type]: a KeyError for an unknown name
ConstructorFor(figure_type) ==
    IF figure_type \in _FIGURE_CONSTRUCTORS
    THEN [err |-> "none", type |-> figure_type]
    ELSE [err |-> "KeyError", type |-> figure_type]

\* FileParser._parse_figure(figure_dict): the outcome, a Shape or an exception,
\* and the colour resolution it made
_parse_figure(fd) ==
    IF "type" \notin DOMAIN fd
    THEN [err |-> "KeyError", where |-> "type", look |-> lookup]
    ELSE LET figure_type == fd.type
             raw_color == IF "color" \in DOMAIN fd THEN fd.color
                          ELSE screen_parameters.fg_color
             res == PaletteGet(color_palette, raw_color)
             look == [raw |-> raw_color, res |-> res]
             kw == [color |-> res.val] @@ Restrict(fd, DOMAIN fd \ {"type", "color"})
             constructor == ConstructorFor(figure_type)
         IN  IF res.err # "none"
             THEN [err |-> res.err, where |-> "color", look |-> look]
             ELSE IF constructor.err # "none"
             THEN [err |-> constructor.err, where |-> "constructor_lookup", look |-> look]
             ELSE IF ~Binds(constructor.type, DOMAIN kw)
             THEN [err |-> "TypeError", where |-> "constructor", look |-> look]
             ELSE [err |-> "none", where |-> "none", look |-> look,
                   shape |-> Construct(constructor.type, kw)]

\* FileParser.__init__, line 161: the next entry of the Figures array
ParseFigure(fd) ==
    /\ pc = "figures"
    /\ Len(raw_figures) < MaxFigures
    /\ raw_figures' = Append(raw_figures, fd)
    /\ LET r == _parse_figure(fd)
       IN  /\ lookup' = r.look
           /\ IF r.err # "none"
              THEN Abort(r.err, r.where) /\ UNCHANGED figures
              ELSE /\ figures' = Append(figures, r.shape)
                   /\ UNCHANGED <<pc, error>>
    /\ UNCHANGED <<args_output, color_palette, screen_parameters, im, drawn,
                   surface_log, displayed, saved>>

\* the Figures array is exhausted: FileParser(args.input) returns
EndFigures ==
    /\ pc = "figures"
    /\ pc' = "canvas"
    /\ UNCHANGED <<args_output, color_palette, screen_parameters, raw_figures, figures,
                   im, drawn, surface_log, displayed, saved, error, lookup>>

\* an ImageManager whose missing width or height is taken as 1
ImageManagerBindsDefault(keys) ==
    /\ "bg_color" \in keys
    /\ keys \subseteq {"width", "height", "bg_color", "fg_color"}

\* ImageManager(**fp.screen_parameters) binds: width, height and bg_color are
\* required, fg_color has a default, nothing else is accepted
ImageManagerBinds(keys) ==
    /\ {"width", "height", "bg_color"} \subseteq keys
    /\ keys \subseteq {"width", "height", "bg_color", "fg_color"}

\* main(), line 194, and ImageManager.__init__: the image filled with bg_color;
\* an image given no colour is left as allocated, whatever that holds
NewImage ==
    /\ pc = "canvas"
    /\ LET sp == screen_parameters
           \* both are bound whenever ImageManagerBinds holds
           w == IF "width" \in DOMAIN sp THEN sp.width ELSE 1
           h == IF "height" \in DOMAIN sp THEN sp.height ELSE 1
       IN  IF ~ImageManagerBinds(DOMAIN sp)
           THEN Abort("TypeError", "ImageManager") /\ UNCHANGED im
           ELSE IF ~SurfaceAcceptsColor(sp.bg_color)
           THEN Abort("ValueError", "Image.new") /\ UNCHANGED im
           ELSE /\ \E fill \in IF sp.bg_color.kind = "none"
                               THEN {Str(TokHexB), DefaultInk} ELSE {sp.bg_color} :
                       im' = [created |-> TRUE, width |-> w, height |-> h,
                              pixels |-> [p \in Pixels(w, h) |-> fill]]
                /\ pc' = "draw"
                /\ UNCHANGED error
    /\ UNCHANGED <<args_output, color_palette, screen_parameters, raw_figures, figures,
                   drawn, surface_log, displayed, saved, lookup>>

\* a loop that takes the figures from the end of the list
NextFigureReversed == figures[Len(figures) - drawn]

\* for figure in fp.figures: the figure of the next iteration
NextFigure == figures[drawn + 1]

\* main(), lines 195-196, one iteration: im.draw(figure), that is
\* figure.draw(self._surface)
Draw ==
    /\ pc = "draw"
    /\ drawn < Len(figures)
    /\ LET call == shape_draw(NextFigure)
       IN  /\ surface_log' = Append(surface_log, call)
           /\ drawn' = drawn + 1
           /\ IF ~SurfaceAcceptsColor(call.fill)
              THEN Abort("ValueError", "draw") /\ UNCHANGED im
              ELSE im' = Paint(im, call) /\ UNCHANGED <<pc, error>>
    /\ UNCHANGED <<args_output, color_palette, screen_parameters, raw_figures, figures,
                   displayed, saved, lookup>>

\* a run that goes on to display and save after a draw has raised
AfterLoopLenient == pc \in {"draw", "failed"} /\ drawn = Len(figures)

\* the loop is over: every figure has been drawn and none has raised
AfterLoop == pc = "draw" /\ drawn = Len(figures)

\* main(), line 198: im.display()
Display ==
    /\ AfterLoop
    /\ displayed' = TRUE
    /\ pc' = "save"
    /\ UNCHANGED <<args_output, color_palette, screen_parameters, raw_figures, figures,
                   im, drawn, surface_log, saved, error, lookup>>

\* main(), lines 200-201: if args.output: im.save(args.output)
Save ==
    /\ pc = "save"
    /\ saved' = IF args_output THEN saved + 1 ELSE saved
    /\ pc' = "done"
    /\ UNCHANGED <<args_output, color_palette, screen_parameters, raw_figures, figures,
                   im, drawn, surface_log, displayed, error, lookup>>

Next ==
    \/ \E raw \in PalettePool : ParsePalette(raw)
    \/ NoScreen
    \/ \E scr \in ScreenPool : ParseScreen(scr)
    \/ NoFigures
    \/ \E fd \in FigurePool : ParseFigure(fd)
    \/ EndFigures
    \/ NewImage
    \/ Draw
    \/ Display
    \/ Save

Spec == Init /\ [][Next]_vars

\* The same run on the scenes of SpecDraw
NextDraw ==
    \/ \E raw \in DrawPalettePool : ParsePalette(raw)
    \/ \E scr \in DrawScreenPool : ParseScreen(scr)
    \/ \E fd \in DrawFigurePool : ParseFigure(fd)
    \/ EndFigures
    \/ NewImage
    \/ Draw
    \/ Display
    \/ Save

SpecDraw == Init /\ [][NextDraw]_vars

\* _parse_color applied to one argument
InitColor ==
    /\ Start("color")
    /\ figures = <<>>
    /\ \E v \in ColorInputs : lookup = [raw |-> v, res |-> Pending]

ParseColorCall ==
    /\ pc = "color"
    /\ lookup' = [lookup EXCEPT !.res = _parse_color(lookup.raw)]
    /\ pc' = "done"
    /\ UNCHANGED <<args_output, color_palette, screen_parameters, raw_figures, figures,
                   im, drawn, surface_log, displayed, saved, error>>

NextColor == ParseColorCall

SpecColor == InitColor /\ [][NextColor]_vars

\* Rectangle.draw applied to one Rectangle or Square
InitRect ==
    /\ Start("rect")
    /\ lookup = NoLookup
    /\ \E s \in RectanglePool : figures = <<s>>

RectangleDrawCall ==
    /\ pc = "rect"
    /\ surface_log' = Append(surface_log, shape_draw(NextFigure))
    /\ drawn' = drawn + 1
    /\ pc' = "done"
    /\ UNCHANGED <<args_output, color_palette, screen_parameters, raw_figures, figures,
                   im, displayed, saved, error, lookup>>

NextRect == RectangleDrawCall

SpecRect == InitRect /\ [][NextRect]_vars

----------------------------------------------------------------------------
(* The claims.                                                             *)

Max(S) == CHOOSE m \in S : \A n \in S : n <= m

Entries == 1..Len(raw_figures)
Constructed(i) == i <= Len(figures)
HasKnownType(e) == "type" \in DOMAIN e /\ e.type \in _FIGURE_CONSTRUCTORS
HasUnknownType(e) == "type" \in DOMAIN e /\ e.type \notin _FIGURE_CONSTRUCTORS

\* the Screen section has been read
ScreenRead ==
    \/ pc \in {"figures", "canvas", "draw", "save", "done"}
    \/ pc = "failed" /\ error.where \notin {"Palette", "Screen"}

NothingRendered ==
    /\ ~im.created
    /\ drawn = 0
    /\ surface_log = <<>>
    /\ ~displayed
    /\ saved = 0

\* C1: the surface receives one call per figure, in the order of the Figures
\* array, and every pixel of the image holds the colour of the last figure
\* drawn so far whose call paints it (the background where none does).
C1_DrawOrder ==
    /\ Len(surface_log) = drawn
    /\ drawn <= Len(figures)
    /\ \A i \in 1..drawn :
          /\ surface_log[i] = shape_draw(figures[i])
          /\ \A k \in DOMAIN raw_figures[i] \ {"type", "color", "x", "y", "size"} :
                figures[i][k] = raw_figures[i][k]
          /\ "x" \in DOMAIN raw_figures[i] => figures[i].x_coord = raw_figures[i].x
          /\ "y" \in DOMAIN raw_figures[i] => figures[i].y_coord = raw_figures[i].y
    /\ im.created =>
          \A p \in DOMAIN im.pixels :
              LET writers == {i \in 1..drawn :
                                 /\ pc = "failed" => i < drawn
                                 /\ p \in Region(surface_log[i], {p})}
              IN  im.pixels[p] = IF writers = {} THEN screen_parameters.bg_color
                                 ELSE figures[Max(writers)].color

\* C1 witness: the run is over and some pixel painted by two figures of
\* different colours holds the colour of the later one.
C1_Witness ==
    /\ pc = "done"
    /\ Len(figures) = 2
    /\ figures[1].color # figures[2].color
    /\ \E p \in DOMAIN im.pixels :
          /\ p \in Region(surface_log[1], {p})
          /\ p \in Region(surface_log[2], {p})
          /\ im.pixels[p] = figures[2].color

IsHexString(c) == c.kind = "str" /\ Len(c.s) >= 1 /\ c.s[1] = "#"
IsTriple(c) == c.kind = "tuple" /\ Len(c.t) = 3 /\ \A k \in 1..3 : c.t[k] \in Int

\* the geometry fields the input format gives each type
GeometryFields(type) ==
    CASE type = "point" -> {"x", "y"}
      [] type = "circle" -> {"x", "y", "radius"}
      [] type = "square" -> {"x", "y", "size"}
      [] type = "rectangle" -> {"x", "y", "height", "width"}
      [] type = "polygon" -> {"points"}

\* C2 (as stated): when the screen's fg_color resolved to a hex string or to a
\* triple, a Figures entry of a recognised type that has its geometry fields
\* and no "color" field is constructed, with the screen's resolved fg_color as
\* its colour; its parsing does not fail.
C2_DefaultColorIsFg ==
    \A i \in Entries :
        LET e == raw_figures[i]
            fg == screen_parameters.fg_color
        IN  (/\ HasKnownType(e)
             /\ DOMAIN e \ {"type"} = GeometryFields(e.type)
             /\ (IsHexString(fg) \/ IsTriple(fg))) =>
                /\ Constructed(i)
                /\ figures[i].color = fg

\* C3 (as stated): a colour token that is a palette key resolves to the
\* palette's value, and no error of its literal parsing is raised.
C3_PaletteFirst ==
    (lookup.res # Pending /\ lookup.raw.kind = "str" /\ lookup.raw.s \in DOMAIN color_palette)
        => lookup.res = Ok(color_palette[lookup.raw.s])

\* C4 (as stated): the colour of every constructed Shape is a hex string or a
\* triple of integers.
C4_ConcreteColors ==
    \A i \in 1..Len(figures) : IsHexString(figures[i].color) \/ IsTriple(figures[i].color)

\* C4 (amended): the colour of every constructed Shape is a string that starts
\* with "#", a triple of integers, or None (the token was neither a palette
\* name nor a literal); it is never a string without the "#".
C4_ResolvedColors ==
    \A i \in 1..Len(figures) :
        \/ IsHexString(figures[i].color)
        \/ IsTriple(figures[i].color)
        \/ figures[i].color = PyNone

\* C4 witness: a Shape built from an entry whose colour token is in no
\* palette and is no literal has the colour None.
C4_Witness ==
    \E i \in 1..Len(figures) :
        /\ "color" \in DOMAIN raw_figures[i]
        /\ raw_figures[i].color = Str(TokUnknown)
        /\ figures[i].color = PyNone

\* C5 (as stated): an entry with an unknown type ends the run with the
\* unknown-type error, before the canvas exists and before anything is drawn,
\* displayed or saved.
C5_UnknownTypeError ==
    \A i \in Entries :
        HasUnknownType(raw_figures[i]) =>
            /\ pc = "failed"
            /\ error = [exc |-> "KeyError", where |-> "constructor_lookup"]
            /\ NothingRendered

\* C5 (amended): an entry with an unknown type ends the run during parsing, at
\* that entry, before the canvas exists and before anything is drawn, displayed
\* or saved; the error is the unknown-type error unless the entry's colour
\* resolution raises first.
C5_UnknownTypeFails ==
    \A i \in Entries :
        HasUnknownType(raw_figures[i]) =>
            /\ pc = "failed"
            /\ i = Len(raw_figures)
            /\ Len(figures) = i - 1
            /\ NothingRendered
            /\ \/ error = [exc |-> "KeyError", where |-> "constructor_lookup"]
               \/ /\ error.where = "color"
                  /\ lookup.res.err = error.exc
                  /\ error.exc \in {"ValueError", "AttributeError"}
            /\ lookup.res.err = "none" => error.where = "constructor_lookup"

\* C5 witness: the last of two entries has an unknown type; the first was
\* constructed, the run failed with the unknown-type error.
C5_Witness ==
    /\ Len(raw_figures) = 2
    /\ HasUnknownType(raw_figures[2])
    /\ Len(figures) = 1
    /\ pc = "failed"
    /\ error = [exc |-> "KeyError", where |-> "constructor_lookup"]

\* the places where a run of digits starts in s, and where that run ends
RunStarts(s) ==
    {i \in 1..Len(s) : s[i] \in Digits /\ (i = 1 \/ s[i - 1] \notin Digits)}
RunEnd(s, i) ==
    Max({j \in i..Len(s) : \A k \in i..j : s[k] \in Digits})
Pow10(n) == IF n = 0 THEN 1 ELSE IF n = 1 THEN 10 ELSE IF n = 2 THEN 100
            ELSE IF n = 3 THEN 1000 ELSE IF n = 4 THEN 10000
            ELSE IF n = 5 THEN 100000 ELSE IF n = 6 THEN 1000000
            ELSE IF n = 7 THEN 10000000 ELSE 100000000
\* the number the digits s[k..j] denote: each digit times its power of ten
RECURSIVE Positional(_, _, _)
Positional(s, k, j) ==
    IF k > j THEN 0 ELSE DigitVal(s[k]) * Pow10(j - k) + Positional(s, k + 1, j)
\* the number the run of digits starting at i denotes
RunValue(s, i) == Positional(s, i, RunEnd(s, i))
\* the k-th smallest element of S
Nth(S, k) == CHOOSE x \in S : Cardinality({y \in S : y < x}) = k - 1
FirstThree(s) ==
    Tup(<<RunValue(s, Nth(RunStarts(s), 1)), RunValue(s, Nth(RunStarts(s), 2)),
          RunValue(s, Nth(RunStarts(s), 3))>>)
ParenCall ==
    /\ pc = "done"
    /\ lookup.raw.kind = "str"
    /\ startswith(lookup.raw.s, "(")

\* C6 (as stated): for a token that starts with "(", _parse_color fails exactly
\* when the token has fewer than three runs of digits, and otherwise returns
\* the triple of its first three runs.
C6_FirstThreeRuns ==
    ParenCall =>
        LET n == Cardinality(RunStarts(lookup.raw.s))
        IN  /\ lookup.res.err # "none" <=> n < 3
            /\ n >= 3 => lookup.res = Ok(FirstThree(lookup.raw.s))

\* C6 (amended): for a token that starts with "(", _parse_color fails (with a
\* ValueError) exactly when the token does not have exactly three runs of
\* digits, more than three included; with exactly three it returns the triple
\* of the integers they denote.
C6_ExactlyThreeRuns ==
    ParenCall =>
        LET n == Cardinality(RunStarts(lookup.raw.s))
        IN  /\ lookup.res.err # "none" <=> n # 3
            /\ lookup.res.err \in {"none", "ValueError"}
            /\ n = 3 => lookup.res = Ok(FirstThree(lookup.raw.s))

\* C6 witness: "(10,01,0" has three runs and resolves to (10, 1, 0).
C6_Witness ==
    /\ ParenCall
    /\ lookup.raw.s = <<"(", "1", "0", ",", "0", "1", ",", "0">>
    /\ lookup.res = Ok(Tup(<<10, 1, 0>>))

\* the value the Shape holds for an entry's geometry field
ShapeField(shape, k) ==
    CASE k = "x" -> shape.x_coord
      [] k = "y" -> shape.y_coord
      [] k = "size" -> shape.width
      [] OTHER -> shape[k]

LacksDimension ==
    /\ ScreenRead
    /\ ("width" \notin DOMAIN screen_parameters \/ "height" \notin DOMAIN screen_parameters)

\* C8 (as stated): a Screen section without width or height ends the run with
\* a missing-key error while the Screen section is parsed, before any Figures
\* entry is processed.
C8_MissingDimensionFailsInScreen ==
    LacksDimension =>
        /\ pc = "failed"
        /\ error.exc = "KeyError"
        /\ error.where \notin {"Figures", "type", "constructor_lookup"}
        /\ raw_figures = <<>>

\* C8 (amended): the parser does not look at width or height. A Screen section
\* without one of them is parsed like any other (its colours resolved, the
\* Figures entries processed); the run then fails when the canvas is
\* constructed, with a TypeError for the missing argument, after parsing has
\* returned and before anything is drawn, displayed or saved.
C8_MissingDimensionFailsAtCanvas ==
    LacksDimension =>
        /\ NothingRendered
        /\ pc \in {"figures", "canvas", "failed"}
        /\ (pc = "failed" /\ raw_figures = <<>>) =>
               error.where \in {"bg_color", "fg_color", "Figures", "ImageManager"}
        /\ (pc = "failed" /\ error.where \in {"bg_color", "fg_color"} /\ error.exc = "KeyError")
               => error.where \notin DOMAIN screen_parameters
        /\ (pc = "failed" /\ error.where = "ImageManager") =>
               /\ error.exc = "TypeError"
               /\ Len(figures) = Len(raw_figures)

\* C8 witness: a Screen section without width, a figure parsed, and the run
\* failed at the construction of the canvas.
C8_Witness ==
    /\ ScreenRead
    /\ DOMAIN screen_parameters = {"height", "bg_color", "fg_color"}
    /\ Len(figures) >= 1
    /\ pc = "failed"
    /\ error = [exc |-> "TypeError", where |-> "ImageManager"]

\* C9: the image is saved at most once, and only at the end of a run in which
\* every figure was drawn and nothing raised; a run that failed (in parsing,
\* in the construction of the canvas or in a draw) has saved and displayed
\* nothing, whatever it had drawn.
C9_SaveOnlyAfterAllDrawn ==
    /\ saved <= 1
    /\ saved = 1 =>
          /\ pc = "done"
          /\ args_output
          /\ error = NoError
          /\ im.created
          /\ displayed
          /\ drawn = Len(figures)
          /\ Len(surface_log) = Len(figures)
          /\ Len(figures) = Len(raw_figures)
    /\ pc = "failed" => (saved = 0 /\ ~displayed /\ error # NoError)
    /\ error # NoError => pc = "failed"
    /\ displayed => drawn = Len(figures)

\* C9 witness: the first figure was drawn, the draw of the second raised, and
\* the run, asked to save, saved nothing.
C9_Witness ==
    /\ pc = "failed"
    /\ error.where = "draw"
    /\ args_output
    /\ drawn = 2
    /\ \E p \in DOMAIN im.pixels : im.pixels[p] = figures[1].color
                                     /\ im.pixels[p] # screen_parameters.bg_color
    /\ saved = 0

RectDrawn ==
    /\ pc = "done"
    /\ Len(surface_log) = 1
    /\ surface_log[1].prim = "rectangle"

\* C10 (as stated): for an odd width the left and right edges passed to the
\* surface are at different distances from x, and for an odd height the top
\* and bottom edges are at different distances from y.
C10_AsymmetricEdges ==
    RectDrawn =>
        LET s == figures[1]
            xy == surface_log[1].xy
        IN  /\ s.width % 2 = 1 => s.x_coord - xy[1] # xy[3] - s.x_coord
            /\ s.height % 2 = 1 => s.y_coord - xy[2] # xy[4] - s.y_coord

\* C10 (amended): for every width and height the edges passed to the surface
\* are at the same distance from the centre, floor(width/2) left and right of x
\* and floor(height/2) above and below y; for an odd width (height) the floor
\* division makes the two edges width - 1 (height - 1) apart, not width (height).
C10_SymmetricEdges ==
    RectDrawn =>
        LET s == figures[1]
            xy == surface_log[1].xy
        IN  /\ s.x_coord - xy[1] = xy[3] - s.x_coord
            /\ s.y_coord - xy[2] = xy[4] - s.y_coord
            /\ xy[3] - xy[1] = s.width - (s.width % 2)
            /\ xy[4] - xy[2] = s.height - (s.height % 2)

\* C10 witness: a rectangle of width 3 and height 1 at (1, 1) is drawn from
\* (0, 1) to (2, 1).
C10_Witness ==
    /\ RectDrawn
    /\ figures[1].width = 3 /\ figures[1].height = 1
    /\ figures[1].x_coord = 1 /\ figures[1].y_coord = 1
    /\ surface_log[1].xy = <<0, 1, 2, 1>>

====
